---- MODULE Spec2Model ----
(***************************************************************************)
(* Model of the webpack upload plugin (src/unnamed/part_001): the chunk    *)
(* filename renderer gatherChunks, the reference rewriter simpleReplace,   *)
(* the script patchers updateScriptSrc / updateCssLoad and the 'done'      *)
(* handler registered by UploadPlugin.prototype.apply.                     *)
(*                                                                         *)
(* Text is modelled by what the regular expressions of the source look at: *)
(* a filename template is a sequence of tokens (literal pieces and         *)
(* placeholders), a file's content is a record of the fragments the        *)
(* rewriter and the patchers match.                                        *)
(***************************************************************************)
EXTENDS Integers, Sequences, FiniteSets, TLC

(***************************************************************************)
(* Bounds of the model.                                                    *)
(***************************************************************************)
\* largest N of a [chunkhash:N] / [contenthash:N] placeholder drawn by GcInit
\* beyond the 8 of the documented scenario
MaxSliceLen == 3
\* number of distinct URLs the publisher may answer with for one path
MaxUrlVer == 2

(***************************************************************************)
(* Tokens of a filename template / of a rendered filename.                 *)
(*   k = "lit"          a literal piece of text v                          *)
(*   k = "name" | "id"  the placeholders [name], [id]                      *)
(*   k = "chunkhash" | "contenthash" | "hash"                              *)
(*                      the placeholder [k] (n = NoLen) or [k:n]           *)
(***************************************************************************)
NoLen == 0 - 1

Tok(k, v, n) == [k |-> k, v |-> v, n |-> n]
Lit(s) == Tok("lit", s, 0)
PH(k) == Tok(k, "", NoLen)
PHN(k, n) == Tok(k, "", n)

\* a string of single characters as literal tokens
RECURSIVE Lits(_)
Lits(s) == IF s = <<>> THEN <<>> ELSE <<Lit(Head(s))>> \o Lits(Tail(s))

\* String.prototype.slice(0, n) on a sequence of characters
Slice(s, n) == SubSeq(s, 1, IF n < Len(s) THEN n ELSE Len(s))

RECURSIVE Flatten(_)
Flatten(ss) == IF ss = <<>> THEN <<>> ELSE Head(ss) \o Flatten(Tail(ss))

\* s.replace(/\[k(:\d+)?]/g, f): every token of kind k is replaced by f[token]
ReplaceTok(s, k, f) ==
    Flatten([i \in 1..Len(s) |-> IF s[i].k = k THEN f[s[i]] ELSE <<s[i]>>])

\* the tokens of a template
Toks(tpl) == {tpl[i] : i \in 1..Len(tpl)}

\* /\[hash(:\d+)?]/.test(chunkFileName)
HasBareHash(tpl) == \E i \in 1..Len(tpl) : tpl[i].k = "hash"

(***************************************************************************)
(* gatherChunks.  A chunk is [id, name, renderedHash, contentHash]; name = *)
(* "" is an unnamed chunk and contentHash = <<>> a chunk without           *)
(* contentHash (webpack < 4).                                              *)
(***************************************************************************)
\* handleLen(source): with :N the first N characters, else the match itself
handleLen(source, t) ==
    IF t.n # NoLen THEN Lits(Slice(source, t.n)) ELSE <<t>>

\* the filename rendered for one chunk (the four chained replaces)
RenderChunk(chunk, tpl) ==
    LET nameOrId == IF chunk.name # "" THEN chunk.name ELSE chunk.id
        cHash == IF chunk.contentHash # <<>> THEN chunk.contentHash
                 ELSE chunk.renderedHash
        fName == [t \in Toks(tpl) |-> <<Lit(nameOrId)>>]
        fId == [t \in Toks(tpl) |-> <<Lit(chunk.id)>>]
        fChunkHash == [t \in Toks(tpl) |-> handleLen(chunk.renderedHash, t)]
        fContentHash == [t \in Toks(tpl) |-> handleLen(cHash, t)]
    IN ReplaceTok(ReplaceTok(ReplaceTok(ReplaceTok(tpl,
           "name", fName), "id", fId), "chunkhash", fChunkHash),
           "contenthash", fContentHash)

\* obj[key] = val on a map modelled as a function
Put(m, key, val) ==
    [x \in (DOMAIN m) \cup {key} |-> IF x = key THEN val ELSE m[x]]

EmptyMap == [x \in {} |-> <<>>]

\* the reduce of gatherChunks: the [hash] test sits in the callback, so it is
\* evaluated once per chunk and never for an empty chunk list
RECURSIVE gatherReduce(_, _, _)
gatherReduce(chunks, tpl, last) ==
    IF chunks = <<>> THEN [err |-> FALSE, map |-> last]
    ELSE IF HasBareHash(tpl) THEN [err |-> TRUE, map |-> EmptyMap]
    ELSE gatherReduce(Tail(chunks), tpl,
                      Put(last, Head(chunks).id, RenderChunk(Head(chunks), tpl)))

gatherChunks(chunks, tpl) == gatherReduce(chunks, tpl, EmptyMap)

(***************************************************************************)
(* Inputs of the gatherChunks specification.                               *)
(***************************************************************************)
Chunk(id, name, rh, ch) ==
    [id |-> id, name |-> name, renderedHash |-> rh, contentHash |-> ch]

HashA == <<"a", "b", "c", "d", "e", "f", "1", "2", "3", "4">>
HashB == <<"9", "8", "7">>
HashC == <<"x", "y">>

\* the chunk of the documented scenario, an unnamed chunk, a chunk with a
\* separate content hash
ChunkApp == Chunk("1", "app", HashA, <<>>)
ChunkAnon == Chunk("2", "", HashB, <<>>)
ChunkV4 == Chunk("3", "vendor", HashB, HashC)

GcChunkLists ==
    { <<>>, <<ChunkApp>>, <<ChunkAnon>>, <<ChunkV4>>,
      <<ChunkApp, ChunkAnon>>, <<ChunkAnon, ChunkV4>>,
      <<ChunkApp, ChunkAnon, ChunkV4>> }

SliceLens == (0..MaxSliceLen) \cup {8}

\* app.[name].[chunkhash:8].js and its variations
GcTemplates ==
      { <<Lit("app."), PH("name"), Lit("."), PHN("chunkhash", n), Lit(".js")>> :
           n \in SliceLens \cup {NoLen} }
 \cup { <<PH("id"), Lit("."), PHN("contenthash", n), Lit(".js")>> :
           n \in SliceLens \cup {NoLen} }
 \cup { <<PH("name"), Lit("-"), PH("id"), Lit(".js")>>,
        <<PH("name"), Lit("."), PH("hash"), Lit(".js")>>,
        <<PH("id"), Lit("."), PHN("hash", 2), Lit(".js")>>,
        <<PH("name"), PH("name"), PHN("chunkhash", 1), PHN("contenthash", 1)>> }

(***************************************************************************)
(* Files.  A file is named by a short string; PathOf gives its absolute    *)
(* path as tokens where a substring test of the source needs it.           *)
(***************************************************************************)
Img == "a.png"
Font == "f.woff"
Css == "css/1.css"
Css0 == "css/0.css"
Entry == "entry.js"
ChunkJs == "lazy.js"
Plain == "vendor.js"
Tpl == "index.html"
TplDist == "dist/index.html"

AssetFiles == {Img, Font, Css, Css0, Entry, ChunkJs, Plain, Tpl}
AllFiles == AssetFiles \cup {TplDist}

\* the order in which a directory listing / Object.keys enumerates the files
FileOrder == <<Img, Font, Css0, Css, Entry, ChunkJs, Plain, Tpl, TplDist>>

imgTypeArr == {Img}
fontTypeArr == {Font}

\* path.extname(file)
ExtOf(f) ==
    CASE f \in imgTypeArr -> "img"
      [] f \in fontTypeArr -> "font"
      [] f \in {Css, Css0} -> ".css"
      [] f \in {Entry, ChunkJs, Plain} -> ".js"
      [] OTHER -> ".html"

\* the files of a set, as a list in enumeration order
ListOf(S) == SelectSeq(FileOrder, LAMBDA f : f \in S)

Range(s) == {s[i] : i \in 1..Len(s)}

(***************************************************************************)
(* Values a reference can be replaced by.  The publisher answers with      *)
(* URLs; urlCb may turn one into a number.                                 *)
(***************************************************************************)
Url(f, v) == <<"url", f, v>>
Num(n) == <<"num", "", n>>

IsString(val) == val[1] = "url"

\* `${cdnPath}` / JSON.stringify: the text a value is written as
Str(val) == IF val[1] = "num" THEN <<"text", "", val[3]>> ELSE val

(***************************************************************************)
(* File content: the fragments the rewriter and the patchers look at.      *)
(*   loc      files referenced by a local path that follows a reference    *)
(*            prefix (matched by generateLocalPathReg)                     *)
(*   ppref    files referenced by publicPath + local path (matched only    *)
(*            once the publicPath is stripped)                             *)
(*   sub      <<file, text>>: references already replaced by text          *)
(*   loader   "local": the __webpack_require__.p + map[id] + ".js"         *)
(*            expression; "cdn": replaced by the literal table `table`;    *)
(*            "none": no such expression                                   *)
(*   pAssign  "orig": a __webpack_require__.p = expr; statement,           *)
(*            "blank": rewritten to = ""; "none": absent                   *)
(*   cssIds   the ids of the inline `var cssChunks = {...}` map            *)
(*   href     "local": the `var href = ...chunkId...;` statement; "cdn":   *)
(*            replaced by the literal map hrefMap; "none": absent          *)
(*   marks    how many times a marking replaceFn has edited the text       *)
(***************************************************************************)
Content(loc, ppref, loader, pAssign, cssIds, href) ==
    [loc |-> loc, ppref |-> ppref, sub |-> {}, loader |-> loader,
     table |-> EmptyMap, pAssign |-> pAssign, cssIds |-> cssIds,
     href |-> href, hrefMap |-> EmptyMap, marks |-> 0]

NoContent == Content({}, {}, "none", "none", {}, "none")

(***************************************************************************)
(* handlePublicPath, the user's replaceFn, refinedReplaceFn.               *)
(***************************************************************************)
\* handlePublicPath(publicPath)(content): with an empty publicPath the
\* pattern matches the bare prefix and puts it back
removePublicPath(hasPublicPath, c) ==
    IF hasPublicPath
    THEN [c EXCEPT !.loc = c.loc \cup c.ppref, !.ppref = {}]
    ELSE c

\* option.replaceFn: the default identity, or a hook that appends to the text
replaceFn(kind, c) ==
    IF kind = "mark" THEN [c EXCEPT !.marks = c.marks + 1] ELSE c

refinedReplaceFn(opt, c, location) ==
    LET toRemove == ExtOf(location) \in {".css", ".html"}
    IN replaceFn(opt.replaceFn,
                 IF toRemove THEN removePublicPath(opt.publicPath, c) ELSE c)

(***************************************************************************)
(* simpleReplace(srcPath, distPath, replaceFn, copyWhenUntouched)(pairs)   *)
(***************************************************************************)
\* last.replace(localPathReg, (_, prefix) => `${prefix}${cdnPath}`)
ReplacePair(c, pair) ==
    IF pair[1] \in c.loc
    THEN [c EXCEPT !.loc = c.loc \ {pair[1]},
                   !.sub = c.sub \cup {<<pair[1], Str(pair[2])>>}]
    ELSE c

\* the reduce of savePair: the transform runs inside the callback
RECURSIVE savePairReduce(_, _, _, _)
savePairReduce(opt, last, srcPath, pairs) ==
    IF pairs = <<>> THEN last
    ELSE savePairReduce(opt,
             ReplacePair(refinedReplaceFn(opt, last, srcPath), Head(pairs)),
             srcPath, Tail(pairs))

\* a default parameter: undefined takes the default true
CopyWhenUntouched(arg) == IF arg = "undef" THEN TRUE ELSE arg = "true"

\* variant: copyWhenUntouched is not consulted
toCopyIgnoreForce(distExists, copyArg, ret, srcFile) ==
    ~distExists \/ ret # srcFile

toCopy(distExists, copyArg, ret, srcFile) ==
    ~distExists \/ CopyWhenUntouched(copyArg) \/ ret # srcFile

\* the outcome of one rewrite call: whether distPath is written, and with what
simpleReplace(opt, srcFile, srcPath, distExists, copyArg, pairs) ==
    LET ret == savePairReduce(opt, srcFile, srcPath, pairs)
    IN [write |-> toCopy(distExists, copyArg, ret, srcFile), ret |-> ret]

(***************************************************************************)
(* The build handed to the plugin (stats.compilation): webpack's own       *)
(* rendering of a chunk's filename, the paths of the emitted files and     *)
(* what webpack wrote into them.                                           *)
(***************************************************************************)
BuildHash == <<"h", "0">>

\* webpack's TemplatedPathPlugin: a hash placeholder without :N stands for
\* the full hash
WebpackRender(chunk, tpl) ==
    LET nameOrId == IF chunk.name # "" THEN chunk.name ELSE chunk.id
        cHash == IF chunk.contentHash # <<>> THEN chunk.contentHash
                 ELSE chunk.renderedHash
        cut(h, t) == Lits(IF t.n = NoLen THEN h ELSE Slice(h, t.n))
        fName == [t \in Toks(tpl) |-> <<Lit(nameOrId)>>]
        fId == [t \in Toks(tpl) |-> <<Lit(chunk.id)>>]
        fChunkHash == [t \in Toks(tpl) |-> cut(chunk.renderedHash, t)]
        fContentHash == [t \in Toks(tpl) |-> cut(cHash, t)]
        fHash == [t \in Toks(tpl) |-> cut(BuildHash, t)]
    IN ReplaceTok(ReplaceTok(ReplaceTok(ReplaceTok(ReplaceTok(tpl,
           "name", fName), "id", fId), "chunkhash", fChunkHash),
           "contenthash", fContentHash), "hash", fHash)

MainChunk == Chunk("0", "main", <<"m", "1">>, <<>>)
LazyChunk == Chunk("1", "lazy", <<"z", "9", "k">>, <<>>)

TplSliced == <<PH("name"), Lit("."), PHN("chunkhash", 2), Lit(".js")>>
TplFull == <<PH("name"), Lit("."), PH("chunkhash"), Lit(".js")>>
TplHash == <<PH("name"), Lit("."), PH("hash"), Lit(".js")>>

\* the absolute path of a file.  The lazy chunk is emitted under the name
\* webpack renders from chunkFilename; the entry script either likewise
\* (output.filename = chunkFilename) or under a name of its own.
PathOf(cfg, f) ==
    CASE f = ChunkJs -> <<Lit("/dist/")>> \o WebpackRender(LazyChunk, cfg.tpl)
      [] f = Entry ->
            IF cfg.entryNamed = "chunk"
            THEN <<Lit("/dist/")>> \o WebpackRender(MainChunk, cfg.tpl)
            ELSE <<Lit("/dist/"), Lit("bundle"), Lit(".js")>>
      [] f = Css -> <<Lit("/dist/"), Lit("css/"), Lit("1"), Lit(".css")>>
      [] f = Css0 -> <<Lit("/dist/"), Lit("css/"), Lit("0"), Lit(".css")>>
      [] OTHER -> <<Lit("/dist/"), Lit(f)>>

\* a.indexOf(b) > -1 on token sequences
Contains(a, b) ==
    \E i \in 0..(Len(a) - Len(b)) : SubSeq(a, i + 1, i + Len(b)) = b

\* what webpack emits: references carry the publicPath when one is set
Emitted(cfg, f) ==
    LET refs(S) == IF cfg.publicPath
                   THEN Content({}, S, "none", "none", {}, "none")
                   ELSE Content(S, {}, "none", "none", {}, "none")
    IN CASE f = Css -> refs({Img, Font})
         [] f = Css0 -> refs({Img})
         [] f = Entry ->
               [refs({Img}) EXCEPT !.loader = "local", !.pAssign = "orig",
                                   !.cssIds = {"0", "1"}, !.href = "local"]
         [] f = ChunkJs -> refs({Img})
         [] f = Plain -> refs({})
         [] f = Tpl -> refs({Entry, Css, Img, Plain})
         [] OTHER -> NoContent

(***************************************************************************)
(* handleCdnRes, getIdForChunk, generateChunkMapToCDN.                     *)
(***************************************************************************)
\* option.urlCb: the default identity, or a hook that returns a number
urlCb(kind, url, local) == IF kind = "num" THEN Num(7) ELSE url

\* handleCdnRes(urlCb)(entries): Object.entries of the publisher's answer,
\* every URL passed through urlCb
getLocal2CdnObj(cfg, entries) ==
    LET keys == ListOf(DOMAIN entries)
    IN [i \in 1..Len(keys) |->
           <<keys[i], urlCb(cfg.urlCb, entries[keys[i]], keys[i])>>]

\* logErr(`the return result of urlCb is not string`) was called
LogsNonString(cfg, entries) ==
    \E i \in 1..Len(getLocal2CdnObj(cfg, entries)) :
        ~IsString(getLocal2CdnObj(cfg, entries)[i][2])

\* variant: a non-string value is thrown instead of logged
handleCdnResStrict(cfg, entries) ==
    IF LogsNonString(cfg, entries) THEN "throw" ELSE "ok"

\* what a call of handleCdnRes(urlCb)(entries) does besides returning the
\* pairs: a non-string result is reported with logErr, nothing is thrown
handleCdnResEffect(cfg, entries) ==
    IF LogsNonString(cfg, entries) THEN "log" ELSE "ok"

\* the order of Object.keys on the chunk map
IdOrder == <<"0", "1", "2", "3", "undefined">>

\* Object.keys(chunkMap).find(key => chunkAbsPath.indexOf(chunkMap[key]) > -1)
getIdForChunk(chunkAbsPath, chunkMap) ==
    LET hits == SelectSeq(IdOrder, LAMBDA id :
                    id \in DOMAIN chunkMap
                    /\ Contains(chunkAbsPath, chunkMap[id]))
    IN IF hits = <<>> THEN "undefined" ELSE Head(hits)

RECURSIVE chunkMapReduce(_, _, _, _)
chunkMapReduce(cfg, pairs, chunkMap, last) ==
    IF pairs = <<>> THEN last
    ELSE chunkMapReduce(cfg, Tail(pairs), chunkMap,
             Put(last, getIdForChunk(PathOf(cfg, Head(pairs)[1]), chunkMap),
                 Head(pairs)[2]))

\* variant: the uploaded URLs are not entered
generateChunkMapToCDNDropAll(cfg, chunkPairs, chunkMap, start) == start

generateChunkMapToCDN(cfg, chunkPairs, chunkMap, start) ==
    chunkMapReduce(cfg, getLocal2CdnObj(cfg, chunkPairs), chunkMap, start)

(***************************************************************************)
(* updateScriptSrc and updateCssLoad on one file's content.                *)
(***************************************************************************)
\* JSON.stringify of an id -> value map
Json(m) == [id \in DOMAIN m |-> Str(m[id])]

\* the body of the forEach of updateScriptSrc (the map is not empty)
patchScript(c, chunkCdnMap) ==
    [c EXCEPT !.loader = IF c.loader = "local" THEN "cdn" ELSE c.loader,
              !.table = IF c.loader = "local" THEN Json(chunkCdnMap)
                        ELSE c.table,
              !.pAssign = IF c.pAssign = "none" THEN "none" ELSE "blank"]

\* the href the inline statement computes for a chunk id
HrefOf(id) == <<Lit("css/"), Lit(id), Lit(".css")>>

\* keys.findIndex(key => key.indexOf(href) > -1), 0 when there is none
cssIndexOf(cfg, cssPairs, id) ==
    LET hits == {i \in 1..Len(cssPairs) :
                    Contains(PathOf(cfg, cssPairs[i][1]), HrefOf(id))}
    IN IF hits = {} THEN 0 ELSE CHOOSE i \in hits : \A j \in hits : i <= j

\* the ids of the inline map that resolve to an uploaded stylesheet
cssChunkIdCdnMap(cfg, cssPairs, ids) ==
    [id \in {x \in ids : cssIndexOf(cfg, cssPairs, x) > 0} |->
        cssPairs[cssIndexOf(cfg, cssPairs, id)][2]]

\* the body of the forEach of updateCssLoad, for a file with `var cssChunks`
patchCssLoad(cfg, c, cssPairs) ==
    LET m == cssChunkIdCdnMap(cfg, cssPairs, c.cssIds)
    IN IF c.href = "local" /\ DOMAIN m # {}
       THEN [c EXCEPT !.href = "cdn", !.hrefMap = Json(m)]
       ELSE c

(***************************************************************************)
(* The steps of the 'done' handler that work on the file system.  fsNow    *)
(* maps every file to its content; a step gives the file system after it   *)
(* and the files it wrote, in order.                                       *)
(***************************************************************************)
\* needToUpdateFiles.forEach(location =>
\*   simpleReplace(location, location, refinedReplaceFn)(pairs))
rewriteInPlace(cfg, fsNow, files, pairs) ==
    LET res(f) == simpleReplace(cfg, fsNow[f], f, TRUE, "undef", pairs)
    IN [fs |-> [f \in DOMAIN fsNow |->
                   IF f \in Range(files) /\ res(f).write THEN res(f).ret
                   ELSE fsNow[f]],
        wrote |-> SelectSeq(files, LAMBDA f : res(f).write)]

\* updateScriptSrc(files, chunkCdnMap): nothing at all for an empty map,
\* else every file is patched and written back
updateScriptSrc(fsNow, files, chunkCdnMap) ==
    IF DOMAIN chunkCdnMap = {} THEN [fs |-> fsNow, wrote |-> <<>>]
    ELSE [fs |-> [f \in DOMAIN fsNow |->
                     IF f \in Range(files)
                     THEN patchScript(fsNow[f], chunkCdnMap)
                     ELSE fsNow[f]],
          wrote |-> files]

\* updateCssLoad(files, cssMap): the files holding `var cssChunks` are
\* patched and written back
updateCssLoad(cfg, fsNow, files, cssPairs) ==
    LET hit(f) == fsNow[f].cssIds # {}
    IN [fs |-> [f \in DOMAIN fsNow |->
                   IF f \in Range(files) /\ hit(f)
                   THEN patchCssLoad(cfg, fsNow[f], cssPairs)
                   ELSE fsNow[f]],
        wrote |-> SelectSeq(files, hit)]

\* variant: the keys of the target are kept
ObjectAssignKeep(target, source) ==
    [k \in (DOMAIN target) \cup (DOMAIN source) |->
        IF k \in DOMAIN target THEN target[k] ELSE source[k]]

\* Object.assign(target, source)
ObjectAssign(target, source) ==
    [k \in (DOMAIN target) \cup (DOMAIN source) |->
        IF k \in DOMAIN source THEN source[k] ELSE target[k]]

(***************************************************************************)
(* Classification of the assets (desireAssets, commonChunksArr and the     *)
(* three script lists).                                                    *)
(***************************************************************************)
\* the assets enumerated by the build; a template kept in a source tree
\* (option.src) is not one of them
AssetsOf(cfg) ==
    IF cfg.srcTree = "none" THEN cfg.files ELSE cfg.files \ {Tpl}

\* isEntryChunk(js): the loader expression is in the file as it is now
isEntryChunk(fsNow, js) == fsNow[js].loader = "local"

\* variant: entry scripts are not told apart
ClassifyNoCommon(cfg, fsNow, chunkMap) ==
    LET assets == AssetsOf(cfg)
        ofType(t) == ListOf({f \in assets : ExtOf(f) = t})
        isChunk(js) == \E id \in DOMAIN chunkMap :
                           Contains(PathOf(cfg, js), chunkMap[id])
    IN [imgArr |-> ofType("img"),
        fontArr |-> ofType("font"),
        cssArr |-> ofType(".css"),
        jsArr |-> ofType(".js"),
        htmlArr |-> ofType(".html"),
        commonChunksWAbs |-> <<>>,
        chunkArrWAbs |-> SelectSeq(ofType(".js"), isChunk),
        notChunkJsArr |-> SelectSeq(ofType(".js"), LAMBDA js : ~isChunk(js))]

\* desireAssets and makeArr, then the split of jsArr: an entry/common script
\* is one whose path contains the path of a script with the loader
\* expression, a chunk script one whose path contains a rendered chunk name
Classify(cfg, fsNow, chunkMap) ==
    LET assets == AssetsOf(cfg)
        ofType(t) == ListOf({f \in assets : ExtOf(f) = t})
        jsArr == ofType(".js")
        commonChunksArr == SelectSeq(jsArr, LAMBDA js : isEntryChunk(fsNow, js))
        isCommonChunk(js) ==
            \E i \in 1..Len(commonChunksArr) :
                Contains(PathOf(cfg, js), PathOf(cfg, commonChunksArr[i]))
        isChunk(js) ==
            /\ ~isCommonChunk(js)
            /\ \E id \in DOMAIN chunkMap :
                  Contains(PathOf(cfg, js), chunkMap[id])
    IN [imgArr |-> ofType("img"),
        fontArr |-> ofType("font"),
        cssArr |-> ofType(".css"),
        jsArr |-> jsArr,
        htmlArr |-> ofType(".html"),
        commonChunksWAbs |-> SelectSeq(jsArr, isCommonChunk),
        chunkArrWAbs |-> SelectSeq(jsArr, isChunk),
        notChunkJsArr |-> SelectSeq(jsArr, LAMBDA js :
                              ~isCommonChunk(js) /\ ~isChunk(js))]

NoClass ==
    [imgArr |-> <<>>, fontArr |-> <<>>, cssArr |-> <<>>, jsArr |-> <<>>,
     htmlArr |-> <<>>, commonChunksWAbs |-> <<>>, chunkArrWAbs |-> <<>>,
     notChunkJsArr |-> <<>>]

\* variant: dirtyCheck always on
manifestListAll(cfg, cls) == cls.jsArr

\* manifestList: with dirtyCheck every script, else every script that is no
\* entry/common script
manifestList(cfg, cls) ==
    IF cfg.dirtyCheck THEN cls.jsArr
    ELSE SelectSeq(cls.jsArr, LAMBDA js : js \notin Range(cls.commonChunksWAbs))

\* tplFiles and where each is written: the emitted templates in place, or the
\* templates of the source tree into the destination tree
tplFiles(cfg, cls) ==
    IF cfg.srcTree = "none" THEN cls.htmlArr
    ELSE ListOf(cfg.files \cap {Tpl})

mapSrcToDist(cfg, filePath) ==
    IF cfg.srcTree = "none" THEN filePath ELSE TplDist

VARIABLES
    gcChunks,   \* gatherChunks: the chunk list,
    gcTpl,      \*   the chunkFilename template,
    gcOut,      \*   the returned map or the thrown error,
    gcPc,       \*   "in" before the call, "out" after it
    srOpt,      \* simpleReplace: the options read by refinedReplaceFn,
    srPath,     \*   srcPath,
    srSame,     \*   whether distPath is srcPath,
    srCopy,     \*   the copyWhenUntouched argument,
    srPairs,    \*   the pairs handed to savePair,
    srSrc,      \*   the content of srcPath,
    srDist,     \*   distPath: whether it exists, and its content,
    srLast,     \*   what the last call read, computed and did,
    srCalls,    \*   the number of calls made,
    srWrites,   \*   the number of writes of distPath
    cfg,        \* the plugin's options and the build it is applied to
    fs,         \* the content of every file
    exists,     \* the files that exist
    cdnSeen,    \* publisher: the paths it has been handed so far
    builds,     \* the number of build-completion events so far
    pc,         \* per run: where the 'done' handler is suspended
    loc,        \* per run: the handler's local variables
    hist        \* per run: what the handler did, in order

gcVars == <<gcChunks, gcTpl, gcOut, gcPc>>
srVars == <<srOpt, srPath, srSame, srCopy, srPairs, srSrc, srDist, srLast,
            srCalls, srWrites>>

runVars == <<cfg, fs, exists, cdnSeen, builds, pc, loc, hist>>

vars == <<gcVars, srVars, runVars>>

(***************************************************************************)
(* The gatherChunks specification.                                         *)
(***************************************************************************)
GcIdle ==
    /\ gcChunks = <<>>
    /\ gcTpl = <<>>
    /\ gcOut = [err |-> FALSE, map |-> EmptyMap]
    /\ gcPc = "off"

GcInit ==
    /\ gcChunks \in GcChunkLists
    /\ gcTpl \in GcTemplates
    /\ gcOut = [err |-> FALSE, map |-> EmptyMap]
    /\ gcPc = "in"

GcCall ==
    /\ gcPc = "in"
    /\ gcOut' = gatherChunks(gcChunks, gcTpl)
    /\ gcPc' = "out"
    /\ UNCHANGED <<gcChunks, gcTpl>>
    /\ UNCHANGED <<srVars, runVars>>

(***************************************************************************)
(* The simpleReplace specification: rewrite calls on one source file, in   *)
(* place or into a separate destination.                                   *)
(***************************************************************************)
\* calls made on the same file with the same pairs
MaxRewriteCalls == 2

Options(fn, pp) == [replaceFn |-> fn, publicPath |-> pp]

SrContents ==
    { Content(l, pr, "none", "none", {}, "none") :
        l \in SUBSET {Img, Css}, pr \in SUBSET {Img} }

SrPairLists ==
    { <<>>, <<<<Img, Url(Img, 1)>>>>,
      <<<<Img, Url(Img, 1)>>, <<Css, Url(Css, 1)>>>>,
      <<<<Img, Num(7)>>>> }

NoCall == [existed |-> FALSE, src |-> NoContent, ret |-> NoContent,
           wrote |-> FALSE]

SrIdle ==
    /\ srOpt = Options("id", FALSE)
    /\ srPath = Tpl
    /\ srSame = TRUE
    /\ srCopy = "undef"
    /\ srPairs = <<>>
    /\ srSrc = NoContent
    /\ srDist = [exists |-> FALSE, content |-> NoContent]
    /\ srLast = NoCall
    /\ srCalls = 0
    /\ srWrites = 0

SrInit ==
    /\ srOpt \in {Options(fn, pp) : fn \in {"id", "mark"}, pp \in BOOLEAN}
    /\ srPath \in {Tpl, Entry}
    /\ srSame \in BOOLEAN
    /\ srCopy \in {"undef", "true", "false"}
    /\ srPairs \in SrPairLists
    /\ srSrc \in SrContents
    /\ srDist \in {[exists |-> e, content |-> IF e THEN srSrc ELSE NoContent] :
                     e \in IF srSame THEN {TRUE} ELSE BOOLEAN}
    /\ srLast = NoCall
    /\ srCalls = 0
    /\ srWrites = 0

\* one rewrite call: simpleReplace(srcPath, distPath, fn, copy)(pairs)
SrCall ==
    /\ srCalls < MaxRewriteCalls
    /\ LET res == simpleReplace(srOpt, srSrc, srPath, srDist.exists, srCopy,
                                srPairs)
       IN /\ srLast' = [existed |-> srDist.exists, src |-> srSrc,
                        ret |-> res.ret, wrote |-> res.write]
          /\ srDist' = IF res.write
                       THEN [exists |-> TRUE, content |-> res.ret]
                       ELSE srDist
          /\ srSrc' = IF res.write /\ srSame THEN res.ret ELSE srSrc
          /\ srWrites' = IF res.write THEN srWrites + 1 ELSE srWrites
    /\ srCalls' = srCalls + 1
    /\ UNCHANGED <<srOpt, srPath, srSame, srCopy, srPairs>>
    /\ UNCHANGED <<gcVars, runVars>>

(***************************************************************************)
(* The 'done' handler of UploadPlugin.prototype.apply.  A run is one call  *)
(* of the handler; it is suspended at each await and everything between    *)
(* two awaits is one step.                                                 *)
(***************************************************************************)
\* build-completion events on one plugin instance
MaxRuns == 2

Runs == 1..MaxRuns

Ev(e, ph, f, fl, val) == [e |-> e, ph |-> ph, f |-> f, fl |-> fl, val |-> val]

ErrVal(kind) == <<"err", kind, 0>>

UploadEv(ph, files) == Ev("upload", ph, "", files, <<>>)

WriteEvs(ph, files) ==
    [i \in 1..Len(files) |-> Ev("write", ph, files[i], <<>>, <<>>)]

LogEvs(flag) ==
    IF flag THEN <<Ev("logErr", "", "", <<>>, <<>>)>> ELSE <<>>

NoLocals ==
    [cls |-> NoClass, chunkMap |-> EmptyMap, pending |-> <<>>,
     imgAndFontPairs |-> EmptyMap, chunkPairs |-> EmptyMap,
     newChunkMap |-> EmptyMap, cssLocal2CdnObj |-> EmptyMap,
     commonChunksPair |-> EmptyMap, jsLocal2CdnObj |-> EmptyMap,
     allLocal2CdnObj |-> EmptyMap, fail |-> "none"]

UploadPcs == {"upImg", "upChunk", "upCss", "upCommon", "upJs"}

\* the publisher's answer to upload(pending): one URL per path; a path it
\* has been handed before may come back under another URL
Answer(pending, v) ==
    [f \in Range(pending) |-> Url(f, IF f \in cdnSeen THEN v ELSE 1)]

Versions(pending) ==
    IF Range(pending) \cap cdnSeen = {} THEN {1} ELSE 1..MaxUrlVer

\* the builds and option sets the handler is run on
Builds ==
    { {},
      {Img, Font, Css0, Css, Entry, ChunkJs, Plain, Tpl},
      {Img, Css, Entry, ChunkJs, Tpl},
      {Css, Entry, Tpl},
      {Entry, ChunkJs},
      {ChunkJs, Plain, Tpl},
      {Img, Css, Tpl},
      {Entry, Plain} }

Config(files, tpl, chunks, en, dc, ac, cb, fn, pp, force, st, events) ==
    [files |-> files, tpl |-> tpl, chunks |-> chunks,
     entryNamed |-> en, dirtyCheck |-> dc,
     asyncCSS |-> ac, urlCb |-> cb, replaceFn |-> fn,
     publicPath |-> pp, forceCopyTemplate |-> force, srcTree |-> st,
     events |-> events]

\* every build, template, chunk list and naming of the entry script with
\* every choice of dirtyCheck, asyncCSS and urlCb, under the default hooks
BuildConfigs ==
    { Config(files, tpl, chunks, en, dc, ac, cb, "id", FALSE, "undef",
             "none", 1) :
        files \in Builds, tpl \in {TplSliced, TplFull, TplHash},
        chunks \in {<<>>, <<MainChunk, LazyChunk>>},
        en \in {"chunk", "own"}, dc \in BOOLEAN, ac \in BOOLEAN,
        cb \in {"id", "num"} }

\* every build with every choice of the options and hooks, for the usual
\* template and chunk list
OptionConfigs ==
    { Config(files, TplSliced, <<MainChunk, LazyChunk>>, "chunk", dc, ac, cb,
             fn, pp, force, st, 1) :
        files \in Builds, dc \in BOOLEAN, ac \in BOOLEAN,
        cb \in {"id", "num"}, fn \in {"id", "mark"}, pp \in BOOLEAN,
        force \in {"undef", "false"}, st \in {"none", "fresh", "stale"} }

Configs == BuildConfigs \cup OptionConfigs

\* watch mode: the compiler fires 'done' twice on the same plugin instance
WatchConfigs ==
    { Config(files, TplSliced, <<MainChunk, LazyChunk>>, "chunk", dc, FALSE,
             "id", "id", FALSE, "undef", "none", 2) :
        files \in {{Img, Css, Entry, ChunkJs, Tpl}, {Entry, ChunkJs}},
        dc \in BOOLEAN }

\* the files on disk once webpack has emitted the build
EmittedFs(c) == [f \in AllFiles |-> Emitted(c, f)]

RunInit(configs) ==
    /\ cfg \in configs
    /\ fs = [EmittedFs(cfg) EXCEPT ![TplDist] = Emitted(cfg, Tpl)]
    /\ exists = cfg.files \cup (IF cfg.srcTree = "stale" THEN {TplDist} ELSE {})
    /\ cdnSeen = {}
    /\ builds = 0
    /\ pc = [r \in Runs |-> "idle"]
    /\ loc = [r \in Runs |-> NoLocals]
    /\ hist = [r \in Runs |-> <<>>]

RunIdle ==
    /\ cfg = Config({}, <<>>, <<>>, "own", FALSE, FALSE, "id", "id", FALSE,
                    "undef", "none", 0)
    /\ fs = [f \in AllFiles |-> NoContent]
    /\ exists = {}
    /\ cdnSeen = {}
    /\ builds = 0
    /\ pc = [r \in Runs |-> "idle"]
    /\ loc = [r \in Runs |-> NoLocals]
    /\ hist = [r \in Runs |-> <<>>]

\* variant: onFinish is called after onError
CatchThenFinish(r, kind, evs) ==
    /\ pc' = [pc EXCEPT ![r] = "done"]
    /\ hist' = [hist EXCEPT ![r] =
                   hist[r] \o evs
                   \o <<Ev("onError", "", "", <<>>, ErrVal(kind)),
                        Ev("onFinish", "", "", <<>>, <<>>)>>]
    /\ loc' = [loc EXCEPT ![r].fail = kind, ![r].pending = <<>>]

\* the catch block: onError(e)
Catch(r, kind, evs) ==
    /\ pc' = [pc EXCEPT ![r] = "done"]
    /\ hist' = [hist EXCEPT ![r] =
                   hist[r] \o evs \o <<Ev("onError", "", "", <<>>, ErrVal(kind))>>]
    /\ loc' = [loc EXCEPT ![r].fail = kind, ![r].pending = <<>>]

\* cdn.upload(files) is called and the handler suspends on it
Issue(r, ph, nextPc, files, locals, evs) ==
    /\ pc' = [pc EXCEPT ![r] = nextPc]
    /\ loc' = [loc EXCEPT ![r] = [locals EXCEPT !.pending = files]]
    /\ hist' = [hist EXCEPT ![r] = hist[r] \o evs \o <<UploadEv(ph, files)>>]
    /\ cdnSeen' = cdnSeen \cup Range(loc[r].pending)

\* webpack emits the build and fires 'done': the handler starts and suspends
\* on waitFor()
Done(r) ==
    /\ r = builds + 1
    /\ builds < cfg.events
    /\ builds' = builds + 1
    /\ fs' = [f \in AllFiles |->
                 IF f \in AssetsOf(cfg) THEN Emitted(cfg, f) ELSE fs[f]]
    /\ exists' = exists \cup AssetsOf(cfg)
    /\ pc' = [pc EXCEPT ![r] = "waitFor"]
    /\ hist' = [hist EXCEPT ![r] = <<Ev("waitFor", "", "", <<>>, <<>>)>>]
    /\ UNCHANGED <<cfg, cdnSeen, loc>>
    /\ UNCHANGED <<gcVars, srVars>>

\* waitFor() rejects
WaitForRejected(r) ==
    /\ pc[r] = "waitFor"
    /\ Catch(r, "waitFor", <<>>)
    /\ UNCHANGED <<cfg, fs, exists, cdnSeen, builds>>
    /\ UNCHANGED <<gcVars, srVars>>

\* waitFor() resolves: gatherChunks, the classification, and the upload of
\* the images and fonts is issued
WaitForResolved(r) ==
    /\ pc[r] = "waitFor"
    /\ LET gc == gatherChunks(cfg.chunks, cfg.tpl)
           cls == Classify(cfg, fs, gc.map)
       IN IF gc.err
          THEN Catch(r, "config", <<>>) /\ UNCHANGED cdnSeen
          ELSE Issue(r, "img", "upImg", cls.imgArr \o cls.fontArr,
                     [loc[r] EXCEPT !.cls = cls, !.chunkMap = gc.map], <<>>)
    /\ UNCHANGED <<cfg, fs, exists, builds>>
    /\ UNCHANGED <<gcVars, srVars>>

\* the publisher rejects the outstanding upload call
UploadRejected(r) ==
    /\ pc[r] \in UploadPcs
    /\ \E kind \in {"net", "auth"} :
          Catch(r, kind, <<Ev("rejected", pc[r], "", <<>>, ErrVal(kind))>>)
    /\ cdnSeen' = cdnSeen \cup Range(loc[r].pending)
    /\ UNCHANGED <<cfg, fs, exists, builds>>
    /\ UNCHANGED <<gcVars, srVars>>

\* a step that ends in the catch block after the upload has resolved
Thrown(r, kind) ==
    /\ Catch(r, kind, <<Ev("resolved", pc[r], "", <<>>, <<>>)>>)
    /\ cdnSeen' = cdnSeen \cup Range(loc[r].pending)
    /\ UNCHANGED <<fs, exists>>

\* images and fonts are uploaded: scripts and stylesheets are rewritten with
\* their URLs, the upload of the chunk scripts is issued
ImgResolved(r) ==
    /\ pc[r] = "upImg"
    /\ \E v \in Versions(loc[r].pending) :
        LET l == loc[r]
            ans == Answer(l.pending, v)
            files == l.cls.jsArr \o l.cls.cssArr
            eff == IF files # <<>> THEN handleCdnResEffect(cfg, ans) ELSE "ok"
            step == rewriteInPlace(cfg, fs, files, getLocal2CdnObj(cfg, ans))
        IN IF eff = "throw" THEN Thrown(r, "urlCb")
           ELSE /\ fs' = step.fs
                /\ Issue(r, "chunk", "upChunk", l.cls.chunkArrWAbs,
                         [l EXCEPT !.imgAndFontPairs = ans],
                         <<Ev("resolved", "upImg", "", <<>>, <<>>)>>
                         \o LogEvs(eff = "log")
                         \o WriteEvs("imgRewrite", step.wrote))
                /\ UNCHANGED exists
    /\ UNCHANGED <<cfg, builds>>
    /\ UNCHANGED <<gcVars, srVars>>

\* the chunk scripts are uploaded: newChunkMap is built, the upload of the
\* stylesheets is issued
ChunkResolved(r) ==
    /\ pc[r] = "upChunk"
    /\ \E v \in Versions(loc[r].pending) :
        LET l == loc[r]
            ans == Answer(l.pending, v)
            eff == handleCdnResEffect(cfg, ans)
        IN IF eff = "throw" THEN Thrown(r, "urlCb")
           ELSE /\ Issue(r, "css", "upCss", l.cls.cssArr,
                         [l EXCEPT !.chunkPairs = ans,
                                   !.newChunkMap =
                                       generateChunkMapToCDN(cfg, ans,
                                           l.chunkMap, EmptyMap)],
                         <<Ev("resolved", "upChunk", "", <<>>, <<>>)>>
                         \o LogEvs(eff = "log"))
                /\ UNCHANGED <<fs, exists>>
    /\ UNCHANGED <<cfg, builds>>
    /\ UNCHANGED <<gcVars, srVars>>

\* the rest of the handler from manifestList to cdn.upload(adjustedFiles)
IssueJs(r, fsNow, l, evs) ==
    LET step == updateScriptSrc(fsNow, manifestList(cfg, l.cls), l.newChunkMap)
    IN /\ fs' = step.fs
       /\ Issue(r, "js", "upJs", manifestList(cfg, l.cls), l,
                evs \o WriteEvs("jsPatch", step.wrote))

\* the stylesheets are uploaded: the entry scripts get the async-CSS patch
\* and the chunk table, and are uploaded; without entry scripts the
\* remaining scripts are
CssResolved(r) ==
    /\ pc[r] = "upCss"
    /\ \E v \in Versions(loc[r].pending) :
        LET ans == Answer(loc[r].pending, v)
            l == [loc[r] EXCEPT !.cssLocal2CdnObj = ans]
            common == l.cls.commonChunksWAbs
            eff == IF cfg.asyncCSS THEN handleCdnResEffect(cfg, ans) ELSE "ok"
            css == IF cfg.asyncCSS
                   THEN updateCssLoad(cfg, fs, common,
                                      getLocal2CdnObj(cfg, ans))
                   ELSE [fs |-> fs, wrote |-> <<>>]
            src == updateScriptSrc(css.fs, common, l.newChunkMap)
            evs == <<Ev("resolved", "upCss", "", <<>>, <<>>)>>
                   \o LogEvs(eff = "log")
                   \o WriteEvs("cssLoad", css.wrote)
        IN IF eff = "throw" THEN Thrown(r, "urlCb")
           ELSE /\ IF common # <<>>
                   THEN /\ fs' = src.fs
                        /\ Issue(r, "common", "upCommon", common, l,
                                 evs \o WriteEvs("entryPatch", src.wrote))
                   ELSE IssueJs(r, css.fs, l, evs)
                /\ UNCHANGED exists
    /\ UNCHANGED <<cfg, builds>>
    /\ UNCHANGED <<gcVars, srVars>>

\* the entry/common scripts are uploaded: their URLs join newChunkMap, the
\* remaining scripts are patched and their upload is issued
CommonResolved(r) ==
    /\ pc[r] = "upCommon"
    /\ \E v \in Versions(loc[r].pending) :
        LET ans == Answer(loc[r].pending, v)
            eff == handleCdnResEffect(cfg, ans)
            l == [loc[r] EXCEPT
                    !.commonChunksPair = ans,
                    !.newChunkMap =
                        generateChunkMapToCDN(cfg, ans, loc[r].chunkMap,
                                              loc[r].newChunkMap)]
        IN IF eff = "throw" THEN Thrown(r, "urlCb")
           ELSE /\ IssueJs(r, fs, l,
                           <<Ev("resolved", "upCommon", "", <<>>, <<>>)>>
                           \o LogEvs(eff = "log"))
                /\ UNCHANGED exists
    /\ UNCHANGED <<cfg, builds>>
    /\ UNCHANGED <<gcVars, srVars>>

\* the remaining scripts are uploaded: the maps are merged, the templates
\* rewritten, onFinish is called (and may throw into the catch block)
JsResolved(r) ==
    /\ pc[r] = "upJs"
    /\ \E v \in Versions(loc[r].pending), throws \in BOOLEAN :
        LET l == loc[r]
            ans == Answer(l.pending, v)
            all == ObjectAssign(ObjectAssign(ObjectAssign(ans,
                       l.cssLocal2CdnObj), l.imgAndFontPairs),
                       l.commonChunksPair)
            tpls == tplFiles(cfg, l.cls)
            eff == IF tpls # <<>> THEN handleCdnResEffect(cfg, all) ELSE "ok"
            res(f) == simpleReplace(cfg, fs[f], f,
                                    mapSrcToDist(cfg, f) \in exists,
                                    cfg.forceCopyTemplate,
                                    getLocal2CdnObj(cfg, all))
            wrote == SelectSeq(tpls, LAMBDA f : res(f).write)
            dists == [i \in 1..Len(wrote) |-> mapSrcToDist(cfg, wrote[i])]
            evs == <<Ev("resolved", "upJs", "", <<>>, <<>>)>>
                   \o LogEvs(eff = "log")
                   \o WriteEvs("tpl", dists)
                   \o <<Ev("onFinish", "", "", <<>>, <<>>)>>
        IN IF eff = "throw" THEN Thrown(r, "urlCb")
           ELSE
           /\ fs' = [d \in AllFiles |->
                        IF \E i \in 1..Len(wrote) :
                               mapSrcToDist(cfg, wrote[i]) = d
                        THEN res(CHOOSE f \in Range(wrote) :
                                   mapSrcToDist(cfg, f) = d).ret
                        ELSE fs[d]]
           /\ exists' = exists \cup Range(dists)
           /\ pc' = [pc EXCEPT ![r] = "done"]
           \* jsLocal2CdnObj records the answer of the upload; the object
           \* Object.assign fills in is recorded as allLocal2CdnObj
           /\ loc' = [loc EXCEPT ![r] =
                        [l EXCEPT !.jsLocal2CdnObj = ans,
                                  !.allLocal2CdnObj = all,
                                  !.pending = <<>>,
                                  !.fail = IF throws THEN "onFinish"
                                           ELSE "none"]]
           /\ hist' = [hist EXCEPT ![r] =
                         hist[r] \o evs
                         \o (IF throws
                             THEN <<Ev("onError", "", "", <<>>,
                                       ErrVal("onFinish"))>>
                             ELSE <<>>)]
           /\ cdnSeen' = cdnSeen \cup Range(loc[r].pending)
    /\ UNCHANGED <<cfg, builds>>
    /\ UNCHANGED <<gcVars, srVars>>

(***************************************************************************)
(* The specifications.                                                     *)
(***************************************************************************)
\* gatherChunks on every chunk list and template of GcChunkLists, GcTemplates
InitChunks == GcInit /\ SrIdle /\ RunIdle

NextChunks == GcCall

SpecChunks == InitChunks /\ [][NextChunks]_vars

\* rewrite calls on every input of SrInit
InitReplace == SrInit /\ GcIdle /\ RunIdle

NextReplace == SrCall

SpecReplace == InitReplace /\ [][NextReplace]_vars

\* one build-completion event, on every build and option set of Configs
Init == RunInit(Configs) /\ GcIdle /\ SrIdle

Next ==
    \E r \in Runs :
        \/ Done(r)
        \/ WaitForRejected(r)
        \/ WaitForResolved(r)
        \/ UploadRejected(r)
        \/ ImgResolved(r)
        \/ ChunkResolved(r)
        \/ CssResolved(r)
        \/ CommonResolved(r)
        \/ JsResolved(r)

Spec == Init /\ [][Next]_vars

\* two build-completion events: the second 'done' may fire at any moment
\* after the first, each starts its own call of the async handler
InitWatch == RunInit(WatchConfigs) /\ GcIdle /\ SrIdle

SpecWatch == InitWatch /\ [][Next]_vars

(***************************************************************************)
(* Claims about gatherChunks.                                              *)
(***************************************************************************)
\* C5: for every chunk and every template without a bare [hash], gatherChunks
\* maps the chunk's id to the template with [name], [id], [chunkhash(:N)] and
\* [contenthash(:N)] replaced; without :N by the full hash value.
C5_RendersEveryPlaceholder ==
    (gcPc = "out" /\ ~HasBareHash(gcTpl)) =>
        /\ ~gcOut.err
        /\ \A i \in 1..Len(gcChunks) :
              /\ gcChunks[i].id \in DOMAIN gcOut.map
              /\ gcOut.map[gcChunks[i].id]
                    = WebpackRender(gcChunks[i], gcTpl)

\* (supporting) the documented scenario: app.[name].[chunkhash:8].js with
\* chunk {id:1, name:"app", renderedHash:"abcdef1234"} gives app.app.abcdef12.js
C5_ScenarioA ==
    (/\ gcPc = "out"
     /\ gcChunks = <<ChunkApp>>
     /\ gcTpl = <<Lit("app."), PH("name"), Lit("."), PHN("chunkhash", 8),
                  Lit(".js")>>) =>
        gcOut.map["1"] = <<Lit("app."), Lit("app"), Lit(".")>>
                         \o Lits(<<"a", "b", "c", "d", "e", "f", "1", "2">>)
                         \o <<Lit(".js")>>

(***************************************************************************)
(* Claims about simpleReplace.                                             *)
(***************************************************************************)
PairPaths(pairs) == {pairs[i][1] : i \in 1..Len(pairs)}

\* C6: a rewrite call writes its destination iff the destination does not
\* yet exist, or forceWrite is set, or the rewritten content differs from the
\* source content; in particular a call on a file without any local-path
\* occurrence of the pairs (and nothing for the transform to edit), with
\* forceWrite explicitly false and an existing destination, writes nothing.
C6_WritePolicy ==
    srCalls > 0 =>
        /\ srLast.wrote <=> \/ ~srLast.existed
                            \/ srCopy \in {"undef", "true"}
                            \/ srLast.ret # srLast.src
        /\ (/\ PairPaths(srPairs) \cap srLast.src.loc = {}
            /\ srOpt.replaceFn = "id"
            /\ (srLast.src.ppref = {} \/ ~srOpt.publicPath \/ srPath = Entry)
            /\ srCopy = "false"
            /\ srLast.existed) => (~srLast.wrote /\ srLast.ret = srLast.src)
        /\ srLast.wrote => (srDist.exists /\ srDist.content = srLast.ret)
        /\ ~srLast.wrote => srDist.exists

\* witness of C6: the second call in place, forceWrite false, finds nothing
\* to replace in what the first call wrote and skips the write
C6_Witness ==
    /\ srCalls = 2
    /\ srSame
    /\ srCopy = "false"
    /\ srPairs # <<>>
    /\ srWrites = 1
    /\ ~srLast.wrote
    /\ srLast.src.sub # {}

(***************************************************************************)
(* Claims about a run of the 'done' handler.                               *)
(***************************************************************************)
IsPrefix(a, b) == Len(a) <= Len(b) /\ a = SubSeq(b, 1, Len(a))

EvsAt(r, e) == {i \in 1..Len(hist[r]) : hist[r][i].e = e}

UploadSeq(r) == SelectSeq(hist[r], LAMBDA x : x.e = "upload")

Phases(r) == [i \in 1..Len(UploadSeq(r)) |-> UploadSeq(r)[i].ph]

UploadAt(r, ph) ==
    {i \in EvsAt(r, "upload") : hist[r][i].ph = ph}

WritesOf(r, f) == {i \in EvsAt(r, "write") : hist[r][i].f = f}

\* upload calls not yet settled after the first k events of the run
Outstanding(r, k) ==
    Cardinality({i \in EvsAt(r, "upload") : i <= k})
    - Cardinality({i \in EvsAt(r, "resolved") \cup EvsAt(r, "rejected") :
                      i <= k})

Scripts == {f \in AssetsOf(cfg) : ExtOf(f) = ".js"}

\* the scripts webpack emitted with the chunk-loader expression
EntryScripts == {f \in Scripts : Emitted(cfg, f).loader = "local"}

Succeeded(r) == pc[r] = "done" /\ loc[r].fail = "none"

\* the phases in their fixed order
PhaseOrder ==
    IF EntryScripts # {} THEN <<"img", "chunk", "css", "common", "js">>
    ELSE <<"img", "chunk", "css", "js">>

\* C1: the upload calls of a run are issued in the order images+fonts,
\* non-entry chunk scripts, stylesheets, entry/common scripts (only when one
\* exists), remaining scripts; each only after the previous one has resolved,
\* so at most one upload call of the run is outstanding at any time.
C1_UploadOrder ==
    \A r \in Runs :
        /\ IsPrefix(Phases(r), PhaseOrder)
        /\ \A k \in 0..Len(hist[r]) : Outstanding(r, k) \in {0, 1}
        /\ \A i \in EvsAt(r, "upload") :
              /\ Outstanding(r, i - 1) = 0
              /\ \A j \in EvsAt(r, "rejected") : i < j
        /\ (pc[r] \in UploadPcs) <=> (Outstanding(r, Len(hist[r])) = 1)
        /\ \A i \in EvsAt(r, "upload") :
              LET ph == hist[r][i].ph
                  files == Range(hist[r][i].fl)
              IN /\ ph = "img" =>
                       files = {f \in AssetsOf(cfg) :
                                   ExtOf(f) \in {"img", "font"}}
                 /\ ph = "chunk" =>
                       files \subseteq Scripts \ EntryScripts
                 /\ ph = "css" =>
                       files = {f \in AssetsOf(cfg) : ExtOf(f) = ".css"}
                 /\ ph = "common" => files = EntryScripts
                 /\ ph = "js" =>
                       /\ Scripts \ EntryScripts \subseteq files
                       /\ files \subseteq Scripts
        /\ (pc[r] = "done" /\ loc[r].fail \in {"none", "onFinish"}) =>
              Phases(r) = PhaseOrder

\* witness of C1: a run that made all five upload calls and finished
C1_Witness ==
    /\ Succeeded(1)
    /\ Phases(1) = <<"img", "chunk", "css", "common", "js">>
    /\ \A i \in EvsAt(1, "upload") : hist[1][i].fl # <<>>

\* the events a step adds to a run
NewEvs(r) == SubSeq(hist'[r], Len(hist[r]) + 1, Len(hist'[r]))

\* the failures of a phase (onFinish throwing is the callback's failure)
PhaseFailures == {"waitFor", "config", "net", "auth", "urlCb"}

\* C2: if the publisher rejects the upload call of a phase (or a phase
\* throws), no upload call and no file write of a later phase happens in that
\* run, onError is invoked with the raised value, onFinish is not invoked, and
\* what was written and uploaded before stays as it is.
C2_AbortOnFailure ==
    [][\A r \in Runs :
        /\ pc[r] = "done" => hist'[r] = hist[r]
        /\ (\E i \in 1..Len(NewEvs(r)) : NewEvs(r)[i].e = "rejected") =>
              /\ Len(NewEvs(r)) = 2
              /\ NewEvs(r)[2] =
                     Ev("onError", "", "", <<>>, NewEvs(r)[1].val)
              /\ loc'[r].fail \in {"net", "auth"}
        /\ (pc[r] # "done" /\ loc'[r].fail \in PhaseFailures) =>
              /\ pc'[r] = "done"
              /\ fs' = fs
              /\ exists' = exists
              /\ hist'[r][Len(hist'[r])] =
                     Ev("onError", "", "", <<>>, ErrVal(loc'[r].fail))
              /\ \A i \in 1..Len(hist'[r]) : hist'[r][i].e # "onFinish"
              /\ \A i \in 1..Len(NewEvs(r)) :
                     NewEvs(r)[i].e \notin {"upload", "write"}
              /\ Cardinality({i \in 1..Len(hist'[r]) :
                                 hist'[r][i].e = "onError"}) = 1
      ]_vars

\* witness of C2: the stylesheet upload is rejected after the image/font
\* rewrite has written files
C2_Witness ==
    /\ pc[1] = "done"
    /\ loc[1].fail = "net"
    /\ EvsAt(1, "write") # {}
    /\ hist[1][Len(hist[1]) - 1].e = "rejected"
    /\ hist[1][Len(hist[1]) - 1].ph = "upCss"

\* C3: for every chunk list (the empty one included), a chunk filename
\* template with a bare [hash] aborts the run with a configuration error
\* given to onError, before any upload call and any file write, and onFinish
\* is not invoked.
C3_BareHashAborts ==
    \A r \in Runs :
        (/\ HasBareHash(cfg.tpl)
         /\ pc[r] \notin {"idle", "waitFor"}
         /\ loc[r].fail # "waitFor") =>
            /\ pc[r] = "done"
            /\ loc[r].fail = "config"
            /\ EvsAt(r, "upload") = {}
            /\ EvsAt(r, "write") = {}
            /\ EvsAt(r, "onFinish") = {}
            /\ hist[r][Len(hist[r])] =
                   Ev("onError", "", "", <<>>, ErrVal("config"))

\* the files a file refers to as webpack emitted it
EmittedRefs(f) == Emitted(cfg, f).loc \cup Emitted(cfg, f).ppref

\* the text a reference to `local` is replaced by, given the publisher's URL
Replacement(url, local) == Str(urlCb(cfg.urlCb, url, local))

AllPhasesRan(r) == Phases(r) = PhaseOrder

\* C7: a urlCb that returns a non-string is reported but does not abort the
\* run: every remaining phase executes, onFinish is invoked and onError is
\* not, and the rewritten files hold the stringified value in place of a URL.
C7_NonStringTolerated ==
    \A r \in Runs :
        LET l == loc[r]
        IN cfg.urlCb = "num" =>
            /\ l.fail # "urlCb"
            /\ \A i \in EvsAt(r, "logErr") :
                  hist[r][i - 1].e \in {"resolved"}
            /\ (DOMAIN l.chunkPairs # {} \/ DOMAIN l.commonChunksPair # {})
                  => EvsAt(r, "logErr") # {}
            /\ Succeeded(r) =>
                  /\ AllPhasesRan(r)
                  /\ Cardinality(EvsAt(r, "onFinish")) = 1
                  /\ EvsAt(r, "onError") = {}
                  /\ \A c \in Range(l.cls.cssArr) :
                        \A im \in Range(l.cls.imgArr) \cap EmittedRefs(c) :
                            /\ <<im, <<"text", "", 7>>>> \in fs[c].sub
                            /\ EvsAt(r, "logErr") # {}
                  /\ \A e \in Range(l.cls.commonChunksWAbs) :
                        \A id \in DOMAIN fs[e].table :
                            fs[e].table[id] = <<"text", "", 7>>

\* witness of C7: a finished run whose stylesheet and entry script hold the
\* stringified number
C7_Witness ==
    /\ Succeeded(1)
    /\ cfg.urlCb = "num"
    /\ <<Img, <<"text", "", 7>>>> \in fs[Css].sub
    /\ fs[Entry].loader = "cdn"
    /\ DOMAIN fs[Entry].table # {}
    /\ EvsAt(1, "logErr") # {}

\* the phases that wrote file f in run r
WritersOf(r, f) == {hist[r][i].ph : i \in WritesOf(r, f)}

\* C9 as stated: within one run no file is written by more than one phase.
C9_OneWriterPerFile ==
    \A r \in Runs : \A f \in AllFiles : Cardinality(WritersOf(r, f)) <= 1

\* C9 as amended: no stylesheet and no template is written by more than
\* one phase; a script is written by the image/font rewrite and by the patch
\* phases that apply to it, and with dirtyCheck off the two chunk-table
\* patch phases write disjoint sets of scripts.
C9_WritersByKind ==
    \A r \in Runs : \A f \in AllFiles :
        /\ ExtOf(f) = ".css" => WritersOf(r, f) \subseteq {"imgRewrite"}
        /\ ExtOf(f) = ".html" => WritersOf(r, f) \subseteq {"tpl"}
        /\ ExtOf(f) \in {"img", "font"} => WritersOf(r, f) = {}
        /\ ExtOf(f) = ".js" =>
              /\ WritersOf(r, f) \subseteq
                     {"imgRewrite", "cssLoad", "entryPatch", "jsPatch"}
              /\ ~cfg.dirtyCheck =>
                     ~({"entryPatch", "jsPatch"} \subseteq WritersOf(r, f))
              /\ WritersOf(r, f) \cap {"cssLoad", "entryPatch"} # {} =>
                     f \in EntryScripts
        /\ \A i \in WritesOf(r, f), j \in WritesOf(r, f) :
              (i # j) => hist[r][i].ph # hist[r][j].ph

\* witness of C9: an entry script written by the image/font rewrite, the
\* async-CSS patch and the chunk-table patch of one run
C9_Witness ==
    /\ Succeeded(1)
    /\ ~cfg.dirtyCheck
    /\ WritersOf(1, Entry) = {"imgRewrite", "cssLoad", "entryPatch"}
    /\ WritersOf(1, Css) = {"imgRewrite"}
    /\ WritersOf(1, ChunkJs) = {"imgRewrite", "jsPatch"}

\* the upload results of a run, by phase
ResultOf(r, ph) ==
    CASE ph = "img" -> loc[r].imgAndFontPairs
      [] ph = "chunk" -> loc[r].chunkPairs
      [] ph = "css" -> loc[r].cssLocal2CdnObj
      [] ph = "common" -> loc[r].commonChunksPair
      [] OTHER -> loc[r].jsLocal2CdnObj

AllPhases == {"img", "chunk", "css", "common", "js"}

\* C10 as stated: a local path associated with a URL is never associated
\* again, by a later upload result or by the final merge, with dirtyCheck on
\* or off.
C10_KeySetOnce ==
    \A r \in Runs : \A p \in AllPhases, q \in AllPhases :
        p # q => DOMAIN ResultOf(r, p) \cap DOMAIN ResultOf(r, q) = {}

\* C10 as amended: image, font and stylesheet paths are associated once;
\* the upload of the remaining scripts associates again the chunk scripts
\* (already associated by the chunk upload) and, with dirtyCheck on, the
\* entry/common scripts; the final merge overwrites no key when dirtyCheck
\* is off, and with dirtyCheck on it overwrites exactly the entry/common
\* script paths, with the URL of their own (earlier) upload.
C10_KeysSetAgain ==
    \A r \in Runs :
        LET l == loc[r]
            js == DOMAIN l.jsLocal2CdnObj
            common == DOMAIN l.commonChunksPair
        IN /\ \A p \in {"img", "css"}, q \in AllPhases :
                 p # q => DOMAIN ResultOf(r, p) \cap DOMAIN ResultOf(r, q) = {}
           /\ DOMAIN l.chunkPairs \cap common = {}
           /\ pc[r] = "done" /\ l.fail \in {"none", "onFinish"} =>
                 /\ DOMAIN l.chunkPairs \subseteq js
                 /\ js \cap common = (IF cfg.dirtyCheck THEN common ELSE {})
                 /\ DOMAIN l.allLocal2CdnObj =
                        js \cup common \cup DOMAIN l.imgAndFontPairs
                        \cup DOMAIN l.cssLocal2CdnObj
                 /\ \A k \in DOMAIN l.allLocal2CdnObj :
                        l.allLocal2CdnObj[k] =
                            IF k \in common THEN l.commonChunksPair[k]
                            ELSE IF k \in js THEN l.jsLocal2CdnObj[k]
                            ELSE IF k \in DOMAIN l.cssLocal2CdnObj
                                 THEN l.cssLocal2CdnObj[k]
                            ELSE l.imgAndFontPairs[k]

\* witness of C10: with dirtyCheck on the entry script is uploaded twice,
\* comes back under another URL, and the merge puts the first URL back
C10_Witness ==
    /\ Succeeded(1)
    /\ cfg.dirtyCheck
    /\ Entry \in DOMAIN loc[1].jsLocal2CdnObj
    /\ loc[1].jsLocal2CdnObj[Entry] = Url(Entry, 2)
    /\ loc[1].commonChunksPair[Entry] = Url(Entry, 1)
    /\ loc[1].allLocal2CdnObj[Entry] = Url(Entry, 1)

\* a run is in flight from its 'done' event to its onFinish/onError
InFlight(r) == pc[r] \notin {"idle", "done"}

\* the step adds an upload call or a file write to run r
StepsOf(r) ==
    \E i \in 1..Len(NewEvs(r)) : NewEvs(r)[i].e \in {"upload", "write"}

\* C8: runs do not interleave: waitFor is awaited once before any other
\* step of a run, and while a run is in flight no upload call or file write
\* of another run of the same plugin instance executes.
C8_RunsDoNotInterleave ==
    /\ [](\A r \in Runs :
            /\ hist[r] # <<>> => hist[r][1].e = "waitFor"
            /\ Cardinality(EvsAt(r, "waitFor")) <= 1)
    /\ [][\A r \in Runs, q \in Runs :
            (r # q /\ InFlight(q) /\ InFlight(r)) => ~StepsOf(r)]_vars

\* the waitFor half of C8 on its own
C8_WaitForFirst ==
    \A r \in Runs :
        /\ hist[r] # <<>> => hist[r][1].e = "waitFor"
        /\ Cardinality(EvsAt(r, "waitFor")) <= 1

\* two runs have written the same file while both were in flight
C8_Interleaved ==
    /\ InFlight(1) /\ InFlight(2)
    /\ WritesOf(1, Entry) # {} /\ WritesOf(2, Entry) # {}

(***************************************************************************)
(* Claims about the transform inside a rewrite call.                       *)
(***************************************************************************)
\* the transform has edited the text: the public path is stripped where the
\* file type calls for it
Stripped(before, after) ==
    (srOpt.publicPath /\ ExtOf(srPath) \in {".css", ".html"}) =>
        /\ after.ppref = {}
        /\ before.ppref \subseteq
               after.loc \cup {x[1] : x \in after.sub}

\* C11: in every rewrite call the transform (public-path stripping plus
\* replaceFn) is applied exactly once to the file's content, however many
\* pairs are supplied, the empty pair list included.
C11_TransformOnce ==
    srCalls > 0 =>
        /\ srLast.ret.marks =
               srLast.src.marks + (IF srOpt.replaceFn = "mark" THEN 1 ELSE 0)
        /\ Stripped(srLast.src, srLast.ret)

\* what the calls do instead: the transform runs once per pair
C11_TransformPerPair ==
    srCalls > 0 =>
        /\ srLast.ret.marks =
               srLast.src.marks
               + (IF srOpt.replaceFn = "mark" THEN Len(srPairs) ELSE 0)
        /\ srPairs # <<>> => Stripped(srLast.src, srLast.ret)
        /\ srPairs = <<>> => srLast.ret = srLast.src

\* a call with two pairs has run a marking replaceFn twice
C11_Twice ==
    /\ srCalls = 1
    /\ srOpt.replaceFn = "mark"
    /\ Len(srPairs) = 2
    /\ srLast.ret.marks = 2

(***************************************************************************)
(* Claims about the asynchronous-stylesheet patch.                         *)
(***************************************************************************)
\* the ids of the inline cssChunks map of f whose stylesheet is in the build
ResolvedIds(f) ==
    {id \in fs[f].cssIds :
        \E c \in AssetsOf(cfg) :
            ExtOf(c) = ".css" /\ Contains(PathOf(cfg, c), HrefOf(id))}

\* C12: updateCssLoad rewrites an entry script's href statement only when
\* every chunk id of the inline cssChunks map resolves to a known remote
\* stylesheet URL; when at least one id does not resolve the statement is
\* left unchanged, so a partial id -> URL map is never written.
C12_NoPartialCssMap ==
    \A f \in AllFiles :
        fs[f].href = "cdn" => DOMAIN fs[f].hrefMap = fs[f].cssIds

\* what the patch does instead: the statement is rewritten as soon as one id
\* resolves, with the map of the ids that do; it is left alone when none does
C12_PartialCssMap ==
    \A f \in AllFiles :
        /\ fs[f].href = "cdn" =>
              /\ cfg.asyncCSS
              /\ DOMAIN fs[f].hrefMap # {}
              /\ DOMAIN fs[f].hrefMap = ResolvedIds(f)
        /\ (\E r \in Runs : WritesOf(r, f) # {} /\ "cssLoad" \in WritersOf(r, f))
              => (fs[f].href = "cdn" <=> ResolvedIds(f) # {})

\* an entry script patched with the map of one of its two stylesheet ids
C12_Partial ==
    /\ Succeeded(1)
    /\ fs[Entry].href = "cdn"
    /\ fs[Entry].cssIds = {"0", "1"}
    /\ DOMAIN fs[Entry].hrefMap = {"1"}

(***************************************************************************)
(* Claims about the completion and error callbacks.                        *)
(***************************************************************************)
Calls(r, cb) == Cardinality(EvsAt(r, cb))

\* C13: for every build-completion event whose awaited calls all settle,
\* the run invokes exactly one of onFinish and onError, exactly once: never
\* both and never one of them twice, whatever the callbacks do, onFinish
\* throwing included.
C13_ExactlyOneCallback ==
    \A r \in Runs :
        /\ Calls(r, "onFinish") <= 1
        /\ Calls(r, "onError") <= 1
        /\ pc[r] # "done" => Calls(r, "onFinish") + Calls(r, "onError") = 0
        /\ pc[r] = "done" => Calls(r, "onFinish") + Calls(r, "onError") = 1

\* what holds instead: neither callback is invoked twice, a settled run has
\* invoked at least one, and both exactly when onFinish threw, onError
\* following onFinish with the value thrown
C13_BothWhenOnFinishThrows ==
    \A r \in Runs :
        /\ Calls(r, "onFinish") <= 1
        /\ Calls(r, "onError") <= 1
        /\ pc[r] # "done" => Calls(r, "onFinish") + Calls(r, "onError") = 0
        /\ pc[r] = "done" =>
              /\ Calls(r, "onFinish") + Calls(r, "onError") >= 1
              /\ (Calls(r, "onFinish") + Calls(r, "onError") = 2)
                    <=> loc[r].fail = "onFinish"
              /\ loc[r].fail = "onFinish" =>
                    /\ hist[r][Len(hist[r])] =
                           Ev("onError", "", "", <<>>, ErrVal("onFinish"))
                    /\ hist[r][Len(hist[r]) - 1].e = "onFinish"

\* a run in which onFinish threw: both callbacks were invoked
C13_Both ==
    /\ pc[1] = "done"
    /\ Calls(1, "onFinish") = 1
    /\ Calls(1, "onError") = 1

(***************************************************************************)
(* Claims about the chunk-id -> URL map.                                   *)
(***************************************************************************)
\* the ids of the chunks of the build
ChunkIds == {cfg.chunks[i].id : i \in 1..Len(cfg.chunks)}

\* C14: at every point of a run, every key of newChunkMap and of a table
\* patched into a script is the id of a chunk of the reconstructed chunk
\* map; uploading an entry/common script whose path contains no chunk's
\* rendered filename adds no key such as "undefined".
C14_KeysAreChunkIds ==
    /\ \A r \in Runs :
          /\ DOMAIN loc[r].chunkMap \subseteq ChunkIds
          /\ DOMAIN loc[r].newChunkMap \subseteq DOMAIN loc[r].chunkMap
    /\ \A f \in AllFiles : DOMAIN fs[f].table \subseteq ChunkIds

\* what holds instead: the only key that is no chunk id is "undefined", and
\* it is there exactly when an uploaded entry/common script's path contains
\* no rendered chunk filename
C14_KeysOrUndefined ==
    \A r \in Runs :
        LET l == loc[r]
            strays == {e \in DOMAIN l.commonChunksPair :
                          \A id \in DOMAIN l.chunkMap :
                              ~Contains(PathOf(cfg, e), l.chunkMap[id])}
        IN /\ DOMAIN l.chunkMap \subseteq ChunkIds
           /\ DOMAIN l.newChunkMap \subseteq
                  DOMAIN l.chunkMap \cup {"undefined"}
           /\ "undefined" \in DOMAIN l.newChunkMap <=> strays # {}
           /\ \A f \in AllFiles :
                  DOMAIN fs[f].table \subseteq ChunkIds \cup {"undefined"}

\* a script patched with a table that has the key "undefined"
C14_UndefinedKey ==
    /\ Succeeded(1)
    /\ "undefined" \in DOMAIN loc[1].newChunkMap
    /\ \E f \in AllFiles : "undefined" \in DOMAIN fs[f].table

(***************************************************************************)
(* Claims about the paths handed to the publisher.                         *)
(***************************************************************************)
\* the paths handed to cdn.upload in phase ph of run r
UploadedIn(r, ph) == UNION {Range(hist[r][i].fl) : i \in UploadAt(r, ph)}

\* the number of upload calls of run r that were handed path f
TimesUploaded(r, f) ==
    Cardinality({i \in EvsAt(r, "upload") : f \in Range(hist[r][i].fl)})

\* C15 as stated: within one run no local path is passed to the publisher's
\* upload more than once; the sets of paths of the five phases are pairwise
\* disjoint, with dirtyCheck on or off.
C15_UploadedOnce ==
    \A r \in Runs : \A p \in AllPhases, q \in AllPhases :
        p # q => UploadedIn(r, p) \cap UploadedIn(r, q) = {}

\* C15 as amended: image, font and stylesheet paths are uploaded once, and
\* the image/font, chunk, stylesheet and entry/common sets are pairwise
\* disjoint; the upload of the remaining scripts repeats every chunk script
\* and, with dirtyCheck on (and only then), every entry/common script; no
\* path is uploaded more than twice.
C15_ScriptsUploadedTwice ==
    \A r \in Runs :
        /\ \A p \in AllPhases \ {"js"}, q \in AllPhases \ {"js"} :
              p # q => UploadedIn(r, p) \cap UploadedIn(r, q) = {}
        /\ \A f \in AllFiles :
              /\ TimesUploaded(r, f) <= 2
              /\ ExtOf(f) # ".js" => TimesUploaded(r, f) <= 1
        /\ \A i \in EvsAt(r, "upload") :
              \A a \in 1..Len(hist[r][i].fl), b \in 1..Len(hist[r][i].fl) :
                  a # b => hist[r][i].fl[a] # hist[r][i].fl[b]
        /\ UploadAt(r, "js") # {} =>
              /\ UploadedIn(r, "chunk") \subseteq UploadedIn(r, "js")
              /\ UploadedIn(r, "common") \cap UploadedIn(r, "js") =
                     (IF cfg.dirtyCheck THEN UploadedIn(r, "common") ELSE {})

\* witness of C15: with dirtyCheck off the chunk script is uploaded in the
\* chunk phase and again with the remaining scripts, the entry script once
C15_Witness ==
    /\ Succeeded(1)
    /\ ~cfg.dirtyCheck
    /\ TimesUploaded(1, ChunkJs) = 2
    /\ TimesUploaded(1, Entry) = 1
    /\ TimesUploaded(1, Css) = 1

====
